---- MODULE Spec2Model ----
(***************************************************************************)
(* ProseGenerator front end (App component): the intake conversation, the  *)
(* out-of-band parameter editor, the generation request/response cycle and *)
(* the layout toggle, as a state machine over the component's React state. *)
(*                                                                         *)
(* One action is one event handler run to completion (React applies the    *)
(* queued state updates of a handler as one batch and re-renders before    *)
(* the next event, so every handler reads the state of the latest render). *)
(* The only suspension point is the await inside generateStory: the part   *)
(* after it is the action generateStoryResume, which runs when the fetch   *)
(* settles and writes through the setters into whatever the state is then. *)
(*                                                                         *)
(* A JS string is a sequence of tokens; text typed by the user is a        *)
(* sequence of one-character tokens, a literal of the program is a single  *)
(* token holding the literal.  The contents of the text fields (userInput, *)
(* newBeat, newCharacterName, newCharacterDesc) are the inputs of the      *)
(* handlers that read them.                                                *)
(***************************************************************************)
EXTENDS Naturals, Integers, Sequences, FiniteSets, TLC

\* ------------------------------------------------------------------ bounds
\* longest message log explored
MaxMsgs == 22
\* generation requests issued in one behaviour
MaxRequests == 2
\* Spec: submissions in one behaviour that reach the step logic (non-empty, no
\* reset), longest beat and character list, uses of the layout toggle
MaxSends == 10
MaxBeats == 2
MaxChars == 2
MaxToggles == 2
\* SpecBeats: submissions, longest beat list, editor operations
BeatSends == 4
BeatsCap == 3
BeatOps == 4
\* SpecChars: submissions, longest character list, editor operations
CharSends == 4
CharsCap == 6
CharOps == 6
\* SpecEdit: submissions, longest beat and character list, editor operations
EditSends == 10
EditBeats == 1
EditChars == 1
EditOps == 2
\* SpecRace: submissions (two sessions that each reach GENERATE)
RaceSends == 19

\* SpecNames: submissions, longest character list, editor operations
NameSends == 7
NameChars == 3
NameOps == 2

\* SpecFields: submissions, operations on the three text fields of the editor
FieldSends == 8
FieldOps == 3

\* SpecCalls: submissions, longest beat and character list, calls of the
\* handlers of the two lists
CallSends == 4
CallItems == 2
CallOps == 3

\* SpecStaging: submissions, calls of the handlers of the three text fields
StagingSends == 6
StagingOps == 5

\* SpecRequest: submissions, operations on the sliders and the lists
RequestSends == 9
RequestOps == 4

\* ------------------------------------------------------------------- text
UpperCase == <<"A","B","C","D","E","F","G","H","I","J","K","L","M",
               "N","O","P","Q","R","S","T","U","V","W","X","Y","Z">>
LowerCase == <<"a","b","c","d","e","f","g","h","i","j","k","l","m",
               "n","o","p","q","r","s","t","u","v","w","x","y","z">>
WhiteSpace == {" ", "\n", "\t"}

toLowerCaseChar(c) ==
    IF \E i \in 1..Len(UpperCase) : UpperCase[i] = c
    THEN LowerCase[CHOOSE i \in 1..Len(UpperCase) : UpperCase[i] = c]
    ELSE c

\* String.prototype.toLowerCase
toLowerCase(s) == [i \in 1..Len(s) |-> toLowerCaseChar(s[i])]

RECURSIVE trimStart(_)
trimStart(s) ==
    IF s # <<>> /\ Head(s) \in WhiteSpace THEN trimStart(Tail(s)) ELSE s

RECURSIVE trimEnd(_)
trimEnd(s) ==
    IF s # <<>> /\ s[Len(s)] \in WhiteSpace
    THEN trimEnd(SubSeq(s, 1, Len(s) - 1)) ELSE s

\* mutant of trim: only the leading white space is removed
trimLeadingOnly(s) == trimStart(s)

\* mutant of trim: the input is used as typed
trimSkipped(s) == s

\* String.prototype.trim
trim(s) == trimEnd(trimStart(s))

\* Array.prototype.join over an array of strings
RECURSIVE join(_, _)
join(arr, sep) ==
    IF arr = <<>> THEN <<>>
    ELSE IF Len(arr) = 1 THEN arr[1]
    ELSE arr[1] \o sep \o join(Tail(arr), sep)

\* mutant of filterOutIndex: an index behind the end removes the last element
filterOutClamped(arr, index) ==
    LET at == IF index >= Len(arr) THEN Len(arr) - 1 ELSE index
    IN [i \in 1..(Len(arr) - (IF at \in 0..(Len(arr) - 1) THEN 1 ELSE 0)) |->
           IF i - 1 < at \/ at < 0 THEN arr[i] ELSE arr[i + 1]]

\* Array.prototype.filter((_, i) => i !== index), index counted from 0
filterOutIndex(arr, index) ==
    LET keep == {i \in 1..Len(arr) : i - 1 # index}
        pos[n \in 0..Len(arr)] ==
            IF n = 0 THEN <<>>
            ELSE IF n \in keep THEN Append(pos[n - 1], arr[n]) ELSE pos[n - 1]
    IN pos[Len(arr)]

\* ------------------------------------------------------- program constants
\* JS undefined, the value of a property an object does not have; as a step
\* value it is written -1, a number no entry of STEPS has
undefined == -1

STEPS == [BEAT |-> 0, BEAT_CONFIRM |-> 1, CHARACTER_NAME |-> 2,
          CHARACTER_DESCRIPTION |-> 3, SETTING |-> 4, GENRE |-> 5,
          STYLE |-> 6, CONFIRM |-> 7, GENERATE |-> 8, EXTEND |-> 9]

\* property access STEPS.<key>
StepOf(key) == IF key \in DOMAIN STEPS THEN STEPS[key] ELSE undefined

characterColors == <<"#f44336", "#4caf50", "#2196f3", "#ff9800", "#9c27b0">>

initialMessage == <<"Welcome! ... Let's begin! Please enter your first Story Beat.">>

InitialPrompt == <<"Type your message here...">>

\* temperature in hundredths (0.7), word count in words
DefaultTemperature == 70
DefaultLength == 1000

Msg(sender, text) == [sender |-> sender, text |-> text]

\* the bot messages of generateStory
storyGeneratedMessage ==
    Msg("bot", <<"Story generated. To view the full story, use the toggle button. Type 'start over' to reset.">>)
errorMessage ==
    Msg("bot", <<"Error generating story. Please try again or type 'start over'.">>)

EmptyData == [beats |-> <<>>, characters |-> <<>>,
              setting |-> <<>>, genre |-> <<>>, style |-> <<>>]

\* JS values the response body can put into generatedStory
JsString(s) == [t |-> "string", v |-> s]
JsUndefined == [t |-> "undefined", v |-> <<>>]
JsNull == [t |-> "null", v |-> <<>>]

\* ----------------------------------------------------------- input domains
StartOverText == <<"s","t","a","r","t"," ","o","v","e","r">>
YesText == <<"y","e","s">>
NoText == <<"n","o">>

\* what the user can have in the chat text field when the form is submitted
RawInputs ==
    { <<>>,
      <<" ", "\n">>,
      <<" ","Y","e","s"," ">>,
      NoText,
      StartOverText,
      <<" ","S","t","a","r","t"," ","O","v","e","r","\n">> }

\* the same without the second spelling of the empty input and of the reset
EditInputs == { <<" ", "\n">>, <<" ","Y","e","s"," ">>, NoText, StartOverText }

\* what the user can have in the text fields of the parameters panel
PanelTexts == { <<" ">>, <<" ","s","h","i","p">> }
PanelNames == { <<>>, <<"A","n","a"," ">> }
PanelDescs == { <<" ", " ">>, <<"p","i","l","o","t">> }

\* slider positions (temperature in hundredths)
TemperatureChoices == {35, DefaultTemperature}
LengthChoices == {DefaultLength, 2500}

Fields == {"setting", "genre", "style"}

\* ---------------------------------------------------------------- responses
\* how the fetch of one request can settle: rejected (network error), or a
\* response with a status and a body; the body is valid JSON or not, and a
\* JSON body is null or an object with or without a prose_output member
Response(rejected, status, validJson, isNull, hasProse, prose) ==
    [rejected |-> rejected, status |-> status, validJson |-> validJson,
     isNull |-> isNull, hasProse |-> hasProse, prose |-> prose]

ProseText == <<"O","n","c","e">>

Responses ==
    { Response(TRUE, 0, FALSE, FALSE, FALSE, JsUndefined),
      Response(FALSE, 200, TRUE, FALSE, TRUE, JsString(ProseText)),
      Response(FALSE, 200, TRUE, FALSE, TRUE, JsString(<<>>)),
      Response(FALSE, 200, TRUE, FALSE, TRUE, JsNull),
      Response(FALSE, 200, TRUE, FALSE, FALSE, JsUndefined),
      Response(FALSE, 200, TRUE, TRUE, FALSE, JsUndefined),
      Response(FALSE, 200, FALSE, FALSE, FALSE, JsUndefined),
      Response(FALSE, 500, TRUE, FALSE, FALSE, JsUndefined),
      Response(FALSE, 500, TRUE, FALSE, TRUE, JsString(ProseText)),
      Response(FALSE, 500, FALSE, FALSE, FALSE, JsUndefined) }

\* -------------------------------------------------------------------- state
VARIABLES
    step,             \* useState(STEPS.BEAT)
    data,             \* StoryParameters: beats, characters, setting, genre, style
    currentCharName,  \* the name staged by the CHARACTER_NAME step
    editing,          \* editingSetting, editingGenre, editingStyle
    temp,             \* tempSetting, tempGenre, tempStyle
    messages,         \* the message log
    currentPrompt,    \* placeholder of the chat text field
    generatedStory,   \* GenerationResult; the empty string when there is none
    temperature,      \* GenerationControls
    desiredLength,
    layoutMode,       \* "both", "chatOnly", "storyOnly"
    loading,
    requests,         \* the fetches that have not settled, with their payloads
    \* history variables: they record what happened, no handler reads them
    event,            \* the handler that ran last, with its arguments
    issued,           \* number of requests issued so far
    beatLog,          \* texts of the beats added in this session, in order
    beatIds,          \* for each stored beat, its position in beatLog
    charTags,         \* for each stored character, k: successful adds before it,
                      \* r: removals before it, both counted in this session
    charAdds,         \* successful character adds in this session
    charRemovals,     \* character removals in this session
    panelOps,         \* operations outside the conversation so far
    sends             \* submissions so far that reached the step logic

vars == <<step, data, currentCharName, editing, temp, messages, currentPrompt,
          generatedStory, temperature, desiredLength, layoutMode, loading,
          requests, event, issued, beatLog, beatIds, charTags, charAdds,
          charRemovals, panelOps, sends>>

\* the session state proper, without the history variables
session == <<step, data, currentCharName, editing, temp, messages,
             currentPrompt, generatedStory, temperature, desiredLength,
             layoutMode, loading>>

history == <<beatLog, beatIds, charTags, charAdds, charRemovals>>

Ev(op, arg) == [op |-> op, arg |-> arg]

Init ==
    /\ step = STEPS.BEAT
    /\ data = EmptyData
    /\ currentCharName = <<>>
    /\ editing = [f \in Fields |-> FALSE]
    /\ temp = [f \in Fields |-> <<>>]
    /\ messages = <<Msg("bot", initialMessage)>>
    /\ currentPrompt = InitialPrompt
    /\ generatedStory = JsString(<<>>)
    /\ temperature = DefaultTemperature
    /\ desiredLength = DefaultLength
    /\ layoutMode = "both"
    /\ loading = FALSE
    /\ requests = {}
    /\ event = Ev("init", <<>>)
    /\ issued = 0
    /\ beatLog = <<>>
    /\ beatIds = <<>>
    /\ charTags = <<>>
    /\ charAdds = 0
    /\ charRemovals = 0
    /\ panelOps = 0
    /\ sends = 0

\* ------------------------------------------------------------------- render
\* generatedStory === ""
beforeGeneration == generatedStory = JsString(<<>>)

leftPanelWidth ==
    IF beforeGeneration
    THEN (IF layoutMode = "chatOnly" THEN 12 ELSE 9)
    ELSE (IF layoutMode = "storyOnly" THEN 0 ELSE 8)

rightPanelWidth ==
    IF beforeGeneration
    THEN (IF layoutMode = "chatOnly" THEN 0 ELSE 3)
    ELSE (IF layoutMode = "storyOnly" THEN 12 ELSE 4)

chatVisible == IF beforeGeneration THEN TRUE ELSE layoutMode # "storyOnly"
rightVisible == rightPanelWidth > 0

\* the parameters panel (sliders, beats, characters, setting/genre/style) is
\* rendered in the right panel, and only before generation
paramsPanelVisible == rightVisible /\ beforeGeneration

\* highlightStory(text) calls text.replace once per character: with a stored
\* value that is no string and at least one character it throws, and the
\* render of the story panel throws with it
highlightStoryThrows ==
    generatedStory.t # "string" /\ data.characters # <<>>

\* a render that throws unmounts the component: no handler runs any more
renderThrows == rightVisible /\ ~beforeGeneration /\ highlightStoryThrows
mounted == ~renderThrows

\* ------------------------------------------------------------- conversation
\* input.toLowerCase() === "start over"
isStartOver(input) == toLowerCase(input) = StartOverText

\* mutant of isYes: the comparison without toLowerCase
isYesCaseSensitive(input) == input = YesText

\* input.toLowerCase() === 'yes'
isYes(input) == toLowerCase(input) = YesText

\* mutant of colorFor: the palette is indexed by the length of the list after
\* the character is added
colorForLengthAfter(characters) ==
    characterColors[((Len(characters) + 1) % Len(characterColors)) + 1]

\* the color of a character created when `characters` is the stored list
colorFor(characters) ==
    characterColors[(Len(characters) % Len(characterColors)) + 1]

\* mutant of newChar: the submitted text is used for the name as well
newCharNamedByInput(name, description, characters) ==
    [name |-> description, description |-> description,
     color |-> colorFor(characters)]

\* mutant of newChar: the staged name and the description change places
newCharSwapped(name, description, characters) ==
    [name |-> description, description |-> name, color |-> colorFor(characters)]

newChar(name, description, characters) ==
    [name |-> name, description |-> description, color |-> colorFor(characters)]

\* the summary of the STYLE step; it reads the data of the render the handler
\* was created in, which is the data before this submission
summaryText(d) ==
    <<"\nAll parameters saved.\nBeats:\n">>
    \o join([i \in 1..Len(d.beats) |-> <<ToString(i), ". ">> \o d.beats[i]], <<"\n">>)
    \o <<"\nCharacters: ">>
    \o join([i \in 1..Len(d.characters) |-> d.characters[i].name], <<", ">>)
    \o <<"\nSetting: ">> \o d.setting
    \o <<"\nGenre: ">> \o d.genre
    \o <<"\nStyle: ">> \o d.style
    \o <<"\n\nGenerate your story? (yes/no)\n      ">>

\* mutant of startOverValues: the reset forgets the parameters
startOverKeepsData ==
    [step |-> STEPS.BEAT,
     data |-> data,
     currentCharName |-> <<>>,
     generatedStory |-> JsString(<<>>),
     temperature |-> DefaultTemperature,
     desiredLength |-> DefaultLength,
     layoutMode |-> "both",
     messages |-> <<Msg("bot", initialMessage)>>,
     currentPrompt |-> InitialPrompt]

\* the values startOver() sets
startOverValues ==
    [step |-> STEPS.BEAT,
     data |-> EmptyData,
     currentCharName |-> <<>>,
     generatedStory |-> JsString(<<>>),
     temperature |-> DefaultTemperature,
     desiredLength |-> DefaultLength,
     layoutMode |-> "both",
     messages |-> <<Msg("bot", initialMessage)>>,
     currentPrompt |-> InitialPrompt]

\* mutant of generatingStep: the step is left at CONFIRM while the request runs
generatingStepStays == STEPS.CONFIRM

\* the step handleSend sets before it calls generateStory()
generatingStep == STEPS.GENERATE

\* mutant of storeField: every text field is stored as the setting
storeFieldAsSetting(prevData, field, input) ==
    [prevData EXCEPT !.setting = input]

\* setData(prev => ({ ...prev, [field]: input })) of the steps SETTING, GENRE
\* and STYLE
storeField(prevData, field, input) ==
    [prevData EXCEPT ![field] = input]

\* mutant of userMessageOnly: the user message is followed by a bot message
userMessageAnswered(input) ==
    [step |-> step, data |-> data, currentCharName |-> currentCharName,
     messages |-> Append(Append(messages, Msg("user", input)),
                         Msg("bot", <<"Type your next input:">>)),
     currentPrompt |-> currentPrompt,
     generate |-> FALSE]

\* what handleSend writes before the branches on step, and all it writes when
\* no branch applies: the user message is appended
userMessageOnly(input) ==
    [step |-> step, data |-> data, currentCharName |-> currentCharName,
     messages |-> Append(messages, Msg("user", input)),
     currentPrompt |-> currentPrompt,
     generate |-> FALSE]

\* the step logic of handleSend for a non-empty input that is not "start over":
\* the values of the state it writes, and whether it calls generateStory()
conversationFlow(input) ==
    LET withUser == Append(messages, Msg("user", input))
        say(t) == Append(withUser, Msg("bot", <<t>>))
        same == userMessageOnly(input)
    IN
    IF step = STEPS.BEAT THEN
        [same EXCEPT !.data = [data EXCEPT !.beats = Append(@, input)],
                     !.messages = say("Beat added. Do you want to add another beat? (yes/no)"),
                     !.currentPrompt = <<"Do you want to add another beat? (yes/no)">>,
                     !.step = STEPS.BEAT_CONFIRM]
    ELSE IF step = STEPS.BEAT_CONFIRM THEN
        IF isYes(input) THEN
            [same EXCEPT !.messages = say("Please enter your next Story Beat:"),
                         !.currentPrompt = <<"Enter your next Story Beat:">>,
                         !.step = STEPS.BEAT]
        ELSE
            [same EXCEPT !.messages = say("Please enter the name of your first character:"),
                         !.currentPrompt = <<"Enter character name:">>,
                         !.step = STEPS.CHARACTER_NAME]
    ELSE IF step = STEPS.CHARACTER_NAME THEN
        [same EXCEPT !.currentCharName = input,
                     !.messages = say("Now enter the character's description:"),
                     !.currentPrompt = <<"Enter character description:">>,
                     !.step = STEPS.CHARACTER_DESCRIPTION]
    ELSE IF step = STEPS.CHARACTER_DESCRIPTION THEN
        [same EXCEPT !.data = [data EXCEPT !.characters =
                                   Append(@, newChar(currentCharName, input, @))],
                     !.messages = say("Character saved. Do you want to add another character? (yes/no)"),
                     !.currentPrompt = <<"Add another character? (yes/no)">>,
                     !.step = StepOf("CHARACTERS")]
    ELSE IF step = StepOf("CHARACTERS") THEN
        IF isYes(input) THEN
            [same EXCEPT !.messages = say("Please enter the name of your next character:"),
                         !.currentPrompt = <<"Enter character name:">>,
                         !.step = STEPS.CHARACTER_NAME]
        ELSE
            [same EXCEPT !.messages = say("Characters saved. Now, please enter the Setting of your story:"),
                         !.currentPrompt = <<"Enter the Setting:">>,
                         !.step = STEPS.SETTING]
    ELSE IF step = STEPS.SETTING THEN
        [same EXCEPT !.data = storeField(data, "setting", input),
                     !.messages = say("Setting saved. Now, please enter the Genre:"),
                     !.currentPrompt = <<"Enter the Genre:">>,
                     !.step = STEPS.GENRE]
    ELSE IF step = STEPS.GENRE THEN
        [same EXCEPT !.data = storeField(data, "genre", input),
                     !.messages = say("Genre saved. Now, please enter the desired Style:"),
                     !.currentPrompt = <<"Enter the Style:">>,
                     !.step = STEPS.STYLE]
    ELSE IF step = STEPS.STYLE THEN
        [same EXCEPT !.data = storeField(data, "style", input),
                     !.messages = Append(withUser, Msg("bot", summaryText(data))),
                     !.currentPrompt = <<"Generate your story? (yes/no)">>,
                     !.step = STEPS.CONFIRM]
    ELSE IF step = STEPS.CONFIRM THEN
        IF isYes(input) THEN
            [same EXCEPT !.messages = say("Generating your story... Please wait."),
                         !.currentPrompt = <<"Generating...">>,
                         !.step = generatingStep,
                         !.generate = TRUE]
        ELSE
            [same EXCEPT !.messages = say("Story generation cancelled. To try again, type 'start over'."),
                         !.currentPrompt = <<>>]
    ELSE same

\* mutant of payload: the controls are sent with their initial values
payloadWithDefaults ==
    [beats |-> data.beats,
     characters |-> data.characters,
     setting |-> data.setting,
     genre |-> data.genre,
     style |-> data.style,
     temperature |-> DefaultTemperature,
     approx_word_count |-> DefaultLength]

\* the request body generateStory() builds from the state of its render
payload ==
    [beats |-> data.beats,
     characters |-> data.characters,
     setting |-> data.setting,
     genre |-> data.genre,
     style |-> data.style,
     temperature |-> temperature,
     approx_word_count |-> desiredLength]

\* startOver(), called by handleSend; it leaves loading, editing and temp alone.
\* The fetches in flight go on; `superseded` records that a reset came after them.
startOver ==
    /\ step' = startOverValues.step
    /\ data' = startOverValues.data
    /\ currentCharName' = startOverValues.currentCharName
    /\ generatedStory' = startOverValues.generatedStory
    /\ temperature' = startOverValues.temperature
    /\ desiredLength' = startOverValues.desiredLength
    /\ layoutMode' = startOverValues.layoutMode
    /\ messages' = startOverValues.messages
    /\ currentPrompt' = startOverValues.currentPrompt
    /\ UNCHANGED <<editing, temp, loading, issued>>
    /\ requests' = {[r EXCEPT !.superseded = TRUE] : r \in requests}
    /\ beatLog' = <<>>
    /\ beatIds' = <<>>
    /\ charTags' = <<>>
    /\ charAdds' = 0
    /\ charRemovals' = 0

\* handleSend: the submit handler of the chat form, with `raw` in the text field
handleSend(raw) ==
    LET input == trim(raw)
        flow == conversationFlow(input)
    IN
    /\ event' = Ev("handleSend", raw)
    /\ UNCHANGED panelOps
    /\ sends' = IF input # <<>> /\ ~isStartOver(input) THEN sends + 1 ELSE sends
    /\ IF input = <<>> THEN
           UNCHANGED <<session, requests, issued, history>>
       ELSE IF isStartOver(input) THEN
           startOver
       ELSE
           /\ step' = flow.step
           /\ data' = flow.data
           /\ currentCharName' = flow.currentCharName
           /\ messages' = flow.messages
           /\ currentPrompt' = flow.currentPrompt
           /\ UNCHANGED <<editing, temp, generatedStory, temperature,
                          desiredLength, layoutMode>>
           /\ IF flow.generate
              THEN /\ loading' = TRUE
                   /\ issued' = issued + 1
                   /\ requests' = requests \cup
                        {[id |-> issued + 1, payload |-> payload, superseded |-> FALSE]}
              ELSE UNCHANGED <<loading, issued, requests>>
           /\ IF step = STEPS.BEAT
              THEN /\ beatLog' = Append(beatLog, input)
                   /\ beatIds' = Append(beatIds, Len(beatLog) + 1)
              ELSE UNCHANGED <<beatLog, beatIds>>
           /\ IF step = STEPS.CHARACTER_DESCRIPTION
              THEN /\ charTags' = Append(charTags, [k |-> charAdds, r |-> charRemovals])
                   /\ charAdds' = charAdds + 1
              ELSE UNCHANGED <<charTags, charAdds>>
           /\ UNCHANGED charRemovals

\* ----------------------------------------------------------------- generation
\* the try block of generateStory runs to its end: fetch resolved, res.json()
\* resolved, and reading result.prose_output did not throw
tryCompletes(resp) == ~resp.rejected /\ resp.validJson /\ ~resp.isNull

\* mutant of proseOutput: a member the body does not have is read
proseOutputMisread(resp) == JsUndefined

\* result.prose_output
proseOutput(resp) == IF resp.hasProse THEN resp.prose ELSE JsUndefined

\* mutant of generateStoryResume: the catch block sets the log to the error
\* message instead of appending it
generateStoryResumeReplacesLog(r, resp) ==
    /\ event' = Ev("generateStoryResume", [superseded |-> r.superseded, resp |-> resp])
    /\ requests' = requests \ {r}
    /\ IF tryCompletes(resp)
       THEN /\ generatedStory' = proseOutput(resp)
            /\ messages' = Append(messages, storyGeneratedMessage)
            /\ currentPrompt' = <<"Type your next input:">>
            /\ step' = STEPS.EXTEND
            /\ layoutMode' = "both"
       ELSE /\ messages' = <<errorMessage>>
            /\ currentPrompt' = <<>>
            /\ UNCHANGED <<generatedStory, step, layoutMode>>
    /\ loading' = FALSE
    /\ UNCHANGED <<data, currentCharName, editing, temp, temperature,
                   desiredLength, issued, history, panelOps, sends>>

\* mutant of generateStoryResume: setLoading(false) is the last statement of
\* the try block, so the catch block leaves loading set
generateStoryResumeKeepsLoading(r, resp) ==
    /\ event' = Ev("generateStoryResume", [superseded |-> r.superseded, resp |-> resp])
    /\ requests' = requests \ {r}
    /\ IF tryCompletes(resp)
       THEN /\ generatedStory' = proseOutput(resp)
            /\ messages' = Append(messages, storyGeneratedMessage)
            /\ currentPrompt' = <<"Type your next input:">>
            /\ step' = STEPS.EXTEND
            /\ layoutMode' = "both"
            /\ loading' = FALSE
       ELSE /\ messages' = Append(messages, errorMessage)
            /\ currentPrompt' = <<>>
            /\ UNCHANGED <<generatedStory, step, layoutMode, loading>>
    /\ UNCHANGED <<data, currentCharName, editing, temp, temperature,
                   desiredLength, issued, history, panelOps, sends>>

\* generateStory() after its await, when the fetch of request r settles with resp
generateStoryResume(r, resp) ==
    /\ event' = Ev("generateStoryResume", [superseded |-> r.superseded, resp |-> resp])
    /\ requests' = requests \ {r}
    /\ IF tryCompletes(resp)
       THEN /\ generatedStory' = proseOutput(resp)
            /\ messages' = Append(messages, storyGeneratedMessage)
            /\ currentPrompt' = <<"Type your next input:">>
            /\ step' = STEPS.EXTEND
            /\ layoutMode' = "both"
       ELSE /\ messages' = Append(messages, errorMessage)
            /\ currentPrompt' = <<>>
            /\ UNCHANGED <<generatedStory, step, layoutMode>>
    /\ loading' = FALSE
    /\ UNCHANGED <<data, currentCharName, editing, temp, temperature,
                   desiredLength, issued, history, panelOps, sends>>

\* ------------------------------------------------------------ parameters panel
\* mutant of removeCharacterData: the remaining characters are recolored by
\* their new position
removeCharacterRecolors(prevData, index) ==
    LET rest == filterOutIndex(prevData.characters, index)
    IN [prevData EXCEPT !.characters =
           [i \in 1..Len(rest) |->
               [rest[i] EXCEPT !.color =
                   characterColors[((i - 1) % Len(characterColors)) + 1]]]]

\* the updater of removeCharacter
removeCharacterData(prevData, index) ==
    [prevData EXCEPT !.characters = filterOutIndex(@, index)]

\* mutant of removeBeatData: the index is taken as counted from 1
removeBeatOffByOne(prevData, index) ==
    [prevData EXCEPT !.beats = filterOutIndex(@, index + 1)]

\* the updater of removeBeat
removeBeatData(prevData, index) ==
    [prevData EXCEPT !.beats = filterOutIndex(@, index)]

\* the updater of handleAddBeat
addBeatData(prevData, newBeat) ==
    [prevData EXCEPT !.beats = Append(@, trim(newBeat))]

\* the updater of handleAddCharacter; the color is computed from the data of
\* the render, the list is extended in the updater
addCharacterData(prevData, newCharacterName, newCharacterDesc) ==
    [prevData EXCEPT !.characters =
        Append(@, newChar(trim(newCharacterName), trim(newCharacterDesc),
                          data.characters))]

\* mutant of panelFrame: the operation also reports in the chat
panelFramePosts ==
    /\ panelOps' = panelOps + 1
    /\ messages' = Append(messages, Msg("bot", <<"Parameters updated.">>))
    /\ UNCHANGED <<sends, step, currentCharName, currentPrompt,
                   generatedStory, layoutMode, loading, requests, issued>>

\* what the handlers of the parameters panel leave alone
panelFrame ==
    /\ panelOps' = panelOps + 1
    /\ UNCHANGED <<sends, step, currentCharName, messages, currentPrompt,
                   generatedStory, layoutMode, loading, requests, issued>>

\* removeBeat(index): the delete button of the beat shown at position index
removeBeat(index) ==
    /\ event' = Ev("removeBeat", index)
    /\ data' = removeBeatData(data, index)
    /\ beatIds' = filterOutIndex(beatIds, index)
    /\ panelFrame
    /\ UNCHANGED <<editing, temp, temperature, desiredLength,
                   beatLog, charTags, charAdds, charRemovals>>

\* removeCharacter(index): the delete button of the character at position index
removeCharacter(index) ==
    /\ event' = Ev("removeCharacter", index)
    /\ data' = removeCharacterData(data, index)
    /\ charTags' = filterOutIndex(charTags, index)
    /\ charRemovals' = IF index \in 0..(Len(data.characters) - 1)
                       THEN charRemovals + 1 ELSE charRemovals
    /\ panelFrame
    /\ UNCHANGED <<editing, temp, temperature, desiredLength,
                   beatLog, beatIds, charAdds>>

\* handleAddBeat with newBeat in the "Add new beat" field
handleAddBeat(newBeat) ==
    /\ event' = Ev("handleAddBeat", newBeat)
    /\ IF trim(newBeat) # <<>>
       THEN /\ data' = addBeatData(data, newBeat)
            /\ beatLog' = Append(beatLog, trim(newBeat))
            /\ beatIds' = Append(beatIds, Len(beatLog) + 1)
       ELSE UNCHANGED <<data, beatLog, beatIds>>
    /\ panelFrame
    /\ UNCHANGED <<editing, temp, temperature, desiredLength,
                   charTags, charAdds, charRemovals>>

\* handleAddCharacter with the two fields of the "add character" row
handleAddCharacter(newCharacterName, newCharacterDesc) ==
    /\ event' = Ev("handleAddCharacter", <<newCharacterName, newCharacterDesc>>)
    /\ IF trim(newCharacterName) # <<>> /\ trim(newCharacterDesc) # <<>>
       THEN /\ data' = addCharacterData(data, newCharacterName, newCharacterDesc)
            /\ charTags' = Append(charTags, [k |-> charAdds, r |-> charRemovals])
            /\ charAdds' = charAdds + 1
       ELSE UNCHANGED <<data, charTags, charAdds>>
    /\ panelFrame
    /\ UNCHANGED <<editing, temp, temperature, desiredLength,
                   beatLog, beatIds, charRemovals>>

\* mutant of toggleEdit: toggling off a field that is being edited commits the
\* staged value
toggleEditCommits(param) ==
    /\ event' = Ev("toggleEdit", param)
    /\ temp' = [temp EXCEPT ![param] = data[param]]
    /\ editing' = [editing EXCEPT ![param] = ~@]
    /\ data' = IF editing[param] THEN [data EXCEPT ![param] = temp[param]] ELSE data
    /\ panelFrame
    /\ UNCHANGED <<temperature, desiredLength, history>>

\* toggleEdit(param): the edit button of a field
toggleEdit(param) ==
    /\ event' = Ev("toggleEdit", param)
    /\ temp' = [temp EXCEPT ![param] = data[param]]
    /\ editing' = [editing EXCEPT ![param] = ~@]
    /\ panelFrame
    /\ UNCHANGED <<data, temperature, desiredLength, history>>

\* onChange of the text field of a field that is being edited
changeTemp(param, value) ==
    /\ event' = Ev("changeTemp", <<param, value>>)
    /\ temp' = [temp EXCEPT ![param] = value]
    /\ panelFrame
    /\ UNCHANGED <<data, editing, temperature, desiredLength, history>>

\* saveEdit(param): the check button of a field that is being edited
saveEdit(param) ==
    /\ event' = Ev("saveEdit", param)
    /\ data' = [data EXCEPT ![param] = temp[param]]
    /\ editing' = [editing EXCEPT ![param] = FALSE]
    /\ panelFrame
    /\ UNCHANGED <<temp, temperature, desiredLength, history>>

\* onChange of the temperature slider
changeTemperature(newValue) ==
    /\ event' = Ev("changeTemperature", newValue)
    /\ temperature' = newValue
    /\ panelFrame
    /\ UNCHANGED <<data, editing, temp, desiredLength, history>>

\* onChange of the word count slider
changeDesiredLength(newValue) ==
    /\ event' = Ev("changeDesiredLength", newValue)
    /\ desiredLength' = newValue
    /\ panelFrame
    /\ UNCHANGED <<data, editing, temp, temperature, history>>

\* ------------------------------------------------------------------- layout
\* the updater cycleLayoutMode queues, chosen by the generatedStory of the render
nextLayoutMode(prev) ==
    IF generatedStory = JsString(<<>>)
    THEN (IF prev = "both" THEN "chatOnly" ELSE "both")
    ELSE (IF prev = "both" THEN "storyOnly" ELSE "both")

cycleLayoutMode ==
    /\ event' = Ev("cycleLayoutMode", <<>>)
    /\ layoutMode' = nextLayoutMode(layoutMode)
    /\ panelOps' = panelOps + 1
    /\ UNCHANGED <<step, data, currentCharName, editing, temp, messages,
                   currentPrompt, generatedStory, temperature, desiredLength,
                   loading, requests, issued, history, sends>>

\* --------------------------------------------------------------- specification
\* a submission the bounds admit: the log, the lists, the number of requests
\* and the number of submissions stay within the bounds
sendWithinBounds(raw, maxSends, maxBeats, maxChars) ==
    LET input == trim(raw) IN
    \/ input = <<>>
    \/ isStartOver(input)
    \/ /\ Len(messages) + 2 <= MaxMsgs
       /\ sends < maxSends
       /\ step = STEPS.BEAT => Len(data.beats) < maxBeats
       /\ step = STEPS.CHARACTER_DESCRIPTION => Len(data.characters) < maxChars
       /\ (step = STEPS.CONFIRM /\ isYes(input)) => issued < MaxRequests

\* the chat form is rendered and submitted
SendUpTo(maxSends, maxBeats, maxChars) ==
    \E raw \in RawInputs :
        /\ mounted
        /\ chatVisible
        /\ sendWithinBounds(raw, maxSends, maxBeats, maxChars)
        /\ handleSend(raw)

\* the chat form is rendered and submitted with one of `inputs` in the field
SendFrom(inputs, maxSends, maxBeats, maxChars) ==
    \E raw \in inputs :
        /\ mounted
        /\ chatVisible
        /\ sendWithinBounds(raw, maxSends, maxBeats, maxChars)
        /\ handleSend(raw)

\* the parameters panel is rendered, so its buttons and fields can be used
panelOpen(maxOps) == mounted /\ paramsPanelVisible /\ panelOps < maxOps

AddBeatUpTo(maxOps, maxBeats) ==
    \E t \in PanelTexts :
        panelOpen(maxOps) /\ Len(data.beats) < maxBeats /\ handleAddBeat(t)

\* a delete button exists for every stored beat
RemoveBeatUpTo(maxOps) ==
    \E i \in 0..(Len(data.beats) - 1) : panelOpen(maxOps) /\ removeBeat(i)

AddCharacterUpTo(maxOps, maxChars) ==
    \E n \in PanelNames, d \in PanelDescs :
        /\ panelOpen(maxOps)
        /\ Len(data.characters) < maxChars
        /\ handleAddCharacter(n, d)

\* a delete button exists for every stored character
RemoveCharacterUpTo(maxOps) ==
    \E i \in 0..(Len(data.characters) - 1) : panelOpen(maxOps) /\ removeCharacter(i)

\* the edit button of setting, genre and style; it is rendered while the field
\* is not being edited
ToggleEditUpTo(maxOps) ==
    \E param \in Fields :
        panelOpen(maxOps) /\ ~editing[param] /\ toggleEdit(param)

\* the check button is rendered while the field is being edited
SaveEditUpTo(maxOps) ==
    \E param \in Fields :
        panelOpen(maxOps) /\ editing[param] /\ saveEdit(param)

\* the central toggle button is always rendered
ToggleUpTo(maxOps) == mounted /\ panelOps < maxOps /\ cycleLayoutMode

\* the fetch of a request in flight settles
Settle ==
    \E r \in requests, resp \in Responses :
        mounted /\ Len(messages) < MaxMsgs /\ generateStoryResume(r, resp)

\* Spec: the conversation, the generation cycle and the layout toggle
Send == SendUpTo(MaxSends, MaxBeats, MaxChars)
Toggle == ToggleUpTo(MaxToggles)

Next ==
    \/ Send
    \/ Settle
    \/ Toggle

Spec == Init /\ [][Next]_vars

\* SpecBeats: the beat list under the conversation and the editor
SendBeats == SendUpTo(BeatSends, BeatsCap, MaxChars)
AddBeat == AddBeatUpTo(BeatOps, BeatsCap)
RemoveBeat == RemoveBeatUpTo(BeatOps)

NextBeats ==
    \/ SendBeats
    \/ AddBeat
    \/ RemoveBeat

SpecBeats == Init /\ [][NextBeats]_vars

\* SpecChars: the character list under the conversation and the editor
SendChars == SendUpTo(CharSends, MaxBeats, CharsCap)
AddCharacter == AddCharacterUpTo(CharOps, CharsCap)
RemoveCharacter == RemoveCharacterUpTo(CharOps)

NextChars ==
    \/ SendChars
    \/ AddCharacter
    \/ RemoveCharacter

SpecChars == Init /\ [][NextChars]_vars

\* SpecEdit: the conversation and the generation cycle with the whole editor.
\* At the steps that store the submitted text one text is typed, at the other
\* steps every answer.
StoringSteps == {STEPS.BEAT, STEPS.CHARACTER_NAME, STEPS.CHARACTER_DESCRIPTION,
                 STEPS.SETTING, STEPS.GENRE, STEPS.STYLE}
EditInputsAt ==
    IF step \in StoringSteps THEN EditInputs \ {<<" ","Y","e","s"," ">>} ELSE EditInputs
SendEdit == SendFrom(EditInputsAt, EditSends, EditBeats, EditChars)
AddBeatEdit == AddBeatUpTo(EditOps, EditBeats + 1)
RemoveBeatEdit == RemoveBeatUpTo(EditOps)
AddCharacterEdit == AddCharacterUpTo(EditOps, EditChars + 1)
RemoveCharacterEdit == RemoveCharacterUpTo(EditOps)
BeginEdit == ToggleEditUpTo(EditOps)
CommitEdit == SaveEditUpTo(EditOps)
ToggleEdit == ToggleUpTo(EditOps)

NextEdit ==
    \/ SendEdit
    \/ Settle
    \/ AddBeatEdit
    \/ RemoveBeatEdit
    \/ AddCharacterEdit
    \/ RemoveCharacterEdit
    \/ BeginEdit
    \/ CommitEdit
    \/ ToggleEdit

SpecEdit == Init /\ [][NextEdit]_vars

\* SpecRace: two sessions that each issue a request, and the responses in any
\* order; one beat and one character per session, one text at the storing steps
SendRace == SendFrom(EditInputsAt, RaceSends, EditBeats, EditChars)

NextRace ==
    \/ SendRace
    \/ Settle

SpecRace == Init /\ [][NextRace]_vars

\* SpecNames: the character steps of the conversation with the character
\* editor at work between the submissions
SendNames == SendUpTo(NameSends, MaxBeats, NameChars)
AddCharacterNames == AddCharacterUpTo(NameOps, NameChars)
RemoveCharacterNames == RemoveCharacterUpTo(NameOps)

NextNames ==
    \/ SendNames
    \/ AddCharacterNames
    \/ RemoveCharacterNames

SpecNames == Init /\ [][NextNames]_vars

\* typing in the text field of a field that is being edited
ChangeTempUpTo(maxOps) ==
    \E param \in Fields, value \in PanelTexts :
        panelOpen(maxOps) /\ editing[param] /\ changeTemp(param, value)

\* SpecFields: the conversation up to CONFIRM with the editing of setting,
\* genre and style. At the steps that store a beat or a character one text is
\* typed, at the other steps every answer.
FieldInputsAt ==
    IF step \in {STEPS.BEAT, STEPS.CHARACTER_NAME, STEPS.CHARACTER_DESCRIPTION}
    THEN EditInputs \ {<<" ","Y","e","s"," ">>} ELSE EditInputs
SendFields == SendFrom(FieldInputsAt, FieldSends, EditBeats, EditChars)
BeginEditFields == ToggleEditUpTo(FieldOps)
ChangeTempFields == ChangeTempUpTo(FieldOps)
CommitEditFields == SaveEditUpTo(FieldOps)

NextFields ==
    \/ SendFields
    \/ BeginEditFields
    \/ ChangeTempFields
    \/ CommitEditFields

SpecFields == Init /\ [][NextFields]_vars

\* SpecCalls: the handlers of the beat list and of the character list called
\* with every argument. The delete buttons of the panel pass the index of a
\* stored item only; removeBeat and removeCharacter are called here with the
\* indices next to the list as well.
SendCalls == SendFrom(EditInputsAt, CallSends, CallItems, CallItems)
AddBeatCalls == AddBeatUpTo(CallOps, CallItems)
AddCharacterCalls == AddCharacterUpTo(CallOps, CallItems)
RemoveBeatAt ==
    \E index \in -1..Len(data.beats) : panelOpen(CallOps) /\ removeBeat(index)
RemoveCharacterAt ==
    \E index \in -1..Len(data.characters) :
        panelOpen(CallOps) /\ removeCharacter(index)

NextCalls ==
    \/ SendCalls
    \/ AddBeatCalls
    \/ AddCharacterCalls
    \/ RemoveBeatAt
    \/ RemoveCharacterAt

SpecCalls == Init /\ [][NextCalls]_vars

\* SpecStaging: the handlers of the three text fields of the editor, with the
\* conversation up to the step GENRE. The panel shows the edit button of a
\* field only while the field is not being edited; toggleEdit is called here
\* for a field that is being edited as well.
SendStaging == SendFrom(EditInputsAt, StagingSends, EditBeats, EditChars)
ToggleEditAt ==
    \E param \in Fields : panelOpen(StagingOps) /\ toggleEdit(param)
ChangeTempStaging == ChangeTempUpTo(StagingOps)
CommitEditStaging == SaveEditUpTo(StagingOps)

NextStaging ==
    \/ SendStaging
    \/ ToggleEditAt
    \/ ChangeTempStaging
    \/ CommitEditStaging

SpecStaging == Init /\ [][NextStaging]_vars

\* the two sliders of the parameters panel
ChangeTemperatureUpTo(maxOps) ==
    \E newValue \in TemperatureChoices :
        panelOpen(maxOps) /\ changeTemperature(newValue)

ChangeDesiredLengthUpTo(maxOps) ==
    \E newValue \in LengthChoices :
        panelOpen(maxOps) /\ changeDesiredLength(newValue)

\* SpecRequest: one conversation up to the request and its response, with the
\* sliders and the list editor at work before and after the submission
SendRequest == SendFrom(EditInputsAt, RequestSends, EditBeats + 1, EditChars)
SlideTemperature == ChangeTemperatureUpTo(RequestOps)
SlideDesiredLength == ChangeDesiredLengthUpTo(RequestOps)
AddBeatRequest == AddBeatUpTo(RequestOps, EditBeats + 1)
RemoveCharacterRequest == RemoveCharacterUpTo(RequestOps)

NextRequest ==
    \/ SendRequest
    \/ Settle
    \/ SlideTemperature
    \/ SlideDesiredLength
    \/ AddBeatRequest
    \/ RemoveCharacterRequest

SpecRequest == Init /\ [][NextRequest]_vars

\* SpecLive: two sessions as in SpecRace, in which the service answers or fails
\* every request, so that the continuation of generateStory is not postponed
\* for ever. A submission that extends the log leaves room in it for the
\* message of every response that can still arrive.
SendLive ==
    \E raw \in EditInputsAt :
        /\ mounted
        /\ chatVisible
        /\ sendWithinBounds(raw, RaceSends, EditBeats, EditChars)
        /\ (trim(raw) # <<>> /\ ~isStartOver(trim(raw))) =>
               Len(messages) + 2 + MaxRequests <= MaxMsgs
        /\ handleSend(raw)

NextLive ==
    \/ SendLive
    \/ Settle

SpecLive == Init /\ [][NextLive]_vars /\ WF_vars(Settle)

\* ------------------------------------------------------------------- claims
\* the texts of the user messages of the log, in order
userTexts ==
    LET users == SelectSeq(messages, LAMBDA m : m.sender = "user")
    IN [i \in 1..Len(users) |-> users[i].text]

\* the handler that ran last is handleSend
sent == event.op = "handleSend"

\* the handler that ran last is the continuation of generateStory
settled == event.op = "generateStoryResume"

\* a response the service contract calls a success: a 2xx status and a JSON
\* object whose prose_output is a string
contractSuccess(resp) ==
    /\ ~resp.rejected
    /\ resp.status >= 200 /\ resp.status < 300
    /\ resp.validJson /\ ~resp.isNull
    /\ resp.hasProse /\ resp.prose.t = "string"

\* C1: after a submission whose trimmed text is "start over", whatever the step
\* was, step is BEAT, StoryParameters are empty, the log is the single initial
\* bot message, there is no GenerationResult, no name is staged and no request
\* of the new session is in flight.
C1_StartOverResets ==
    (sent /\ trim(event.arg) = StartOverText) =>
        /\ step = STEPS.BEAT
        /\ data = EmptyData
        /\ messages = <<Msg("bot", initialMessage)>>
        /\ generatedStory = JsString(<<>>)
        /\ currentCharName = <<>>
        /\ \A r \in requests : r.superseded

\* C1 witness: "start over" was submitted at GENERATE with a request in flight
C1_Witness ==
    /\ sent /\ trim(event.arg) = StartOverText
    /\ loading
    /\ \E r \in requests : r.superseded

\* C2: the response of a request superseded by "start over" changes nothing in
\* the fresh session.
C2_StaleResponseDiscarded ==
    [][(event'.op = "generateStoryResume" /\ event'.arg.superseded) =>
          UNCHANGED <<step, messages, data, generatedStory, layoutMode, loading>>]_vars

\* C3: a 2xx response whose body holds the string prose_output = P ends in step
\* EXTEND with GenerationResult = P, the "story generated" bot message appended
\* to the log, loading cleared and layout mode "both".
C3_SuccessStoresProse ==
    [][(event'.op = "generateStoryResume" /\ contractSuccess(event'.arg.resp)) =>
          /\ step' = STEPS.EXTEND
          /\ generatedStory' = event'.arg.resp.prose
          /\ messages' = Append(messages, storyGeneratedMessage)
          /\ ~loading'
          /\ layoutMode' = "both"]_vars

\* C3 witness: a success response with a non-empty story was processed
C3_Witness ==
    /\ settled /\ contractSuccess(event.arg.resp)
    /\ event.arg.resp.prose = JsString(ProseText)
    /\ generatedStory = JsString(ProseText)

\* C4: after a network rejection step is GENERATE, one bot error message is
\* appended, there is no GenerationResult, StoryParameters are unchanged and
\* loading is cleared.
C4_RejectionStaysAtGenerate ==
    [][(event'.op = "generateStoryResume" /\ event'.arg.resp.rejected) =>
          /\ step' = STEPS.GENERATE
          /\ messages' = Append(messages, errorMessage)
          /\ generatedStory' = JsString(<<>>)
          /\ data' = data
          /\ ~loading']_vars

\* C5: a response that is not a contract success (non-2xx status, body that is
\* no JSON, JSON without a string prose_output) is handled as a failure: step
\* unchanged, nothing stored, the bot error message appended; a contract
\* success is handled as success.
C5_OnlyContractSuccessSucceeds ==
    [][event'.op = "generateStoryResume" =>
          IF contractSuccess(event'.arg.resp)
          THEN step' = STEPS.EXTEND /\ generatedStory' = event'.arg.resp.prose
          ELSE /\ step' = step
               /\ generatedStory' = generatedStory
               /\ messages' = Append(messages, errorMessage)]_vars

\* C6: a submission that is empty or only whitespace changes neither step, the
\* log, StoryParameters, GenerationResult nor loading, and issues no request.
C6_BlankInputIgnored ==
    [][(event'.op = "handleSend" /\ \A i \in 1..Len(event'.arg) : event'.arg[i] \in WhiteSpace) =>
          UNCHANGED <<step, messages, data, generatedStory, loading, requests, issued>>]_vars

\* C6 witness: whitespace was submitted while a request was in flight
C6_Witness ==
    /\ sent /\ event.arg = <<" ", "\n">>
    /\ step = STEPS.GENERATE /\ loading

\* C7: with nothing but submissions since the initial session, the eight
\* submissions B, "no", N, D, "no", S, G, T end in step CONFIRM with
\* StoryParameters {beats: [B], characters: [{N, D, palette[0]}], S, G, T}.
C7_LinearPath ==
    (/\ panelOps = 0 /\ issued = 0
     /\ Len(userTexts) = 8
     /\ userTexts[2] = NoText /\ userTexts[5] = NoText) =>
        /\ step = STEPS.CONFIRM
        /\ data = [beats |-> <<userTexts[1]>>,
                   characters |-> <<[name |-> userTexts[3],
                                     description |-> userTexts[4],
                                     color |-> characterColors[1]]>>,
                   setting |-> userTexts[6],
                   genre |-> userTexts[7],
                   style |-> userTexts[8]]

\* C7 witness: the path was walked with a name that differs from the description
C7_Witness ==
    /\ panelOps = 0 /\ issued = 0
    /\ Len(userTexts) = 8
    /\ userTexts[2] = NoText /\ userTexts[5] = NoText
    /\ userTexts[3] # userTexts[4]
    /\ userTexts[6] # userTexts[7]
    /\ step = STEPS.CONFIRM

\* C8: the stored beats are the beats added in this session, in the order they
\* were added, without the removed ones: every stored beat is the text that was
\* added at its place in the order of addition, and the places are increasing.
C8_BeatOrder ==
    /\ Len(data.beats) = Len(beatIds)
    /\ \A i \in 1..Len(beatIds) :
          /\ beatIds[i] \in 1..Len(beatLog)
          /\ data.beats[i] = beatLog[beatIds[i]]
    /\ \A i, j \in 1..Len(beatIds) : i < j => beatIds[i] < beatIds[j]

\* C8 witness: three beats were added, two of them the same text, the second
\* was removed, and the conversation has moved on from the beat steps
C8_Witness ==
    /\ beatIds = <<1, 3>>
    /\ beatLog[1] = beatLog[2]
    /\ beatLog[3] # beatLog[1]
    /\ step = STEPS.CHARACTER_NAME

\* C9: the character that was the k-th successful add of the session (k from
\* 0, removals not counted) has color palette[k mod 5].
C9_ColorByAddCount ==
    /\ Len(data.characters) = Len(charTags)
    /\ \A i \in 1..Len(charTags) :
          data.characters[i].color =
              characterColors[(charTags[i].k % Len(characterColors)) + 1]

\* C10: a character that is in the list before and after a step has the same
\* name, description and color after it, and two such characters keep their
\* relative order.
C10_CharactersStable ==
    [][/\ Len(data'.characters) = Len(charTags')
       /\ \A i \in 1..Len(charTags) : \A j \in 1..Len(charTags') :
             charTags[i] = charTags'[j] =>
                /\ data'.characters[j] = data.characters[i]
                /\ \A i2 \in 1..Len(charTags) : \A j2 \in 1..Len(charTags') :
                      (charTags[i2] = charTags'[j2] /\ i < i2) => j < j2]_vars

\* C10 witness: a character that had others after it was removed, and a
\* character was added after that
C10_Witness ==
    /\ Len(charTags) >= 3
    /\ \E i \in 1..Len(charTags) : charTags[i].r >= 1
    /\ \E i \in 1..(Len(charTags) - 1) : charTags[i + 1].k > charTags[i].k + 1

\* the eleven names of the step enumeration
StepNames == {"BEAT", "BEAT_CONFIRM", "CHARACTER_NAME", "CHARACTER_DESCRIPTION",
              "CHARACTERS", "SETTING", "GENRE", "STYLE", "CONFIRM", "GENERATE",
              "EXTEND"}

\* C11: in every reachable state step is the value of one of the eleven names
\* of the step enumeration, and that value is a defined one.
C11_StepEnumerated ==
    step \in {StepOf(k) : k \in StepNames} \ {undefined}

\* the identities of the requests in flight
requestIds == {r.id : r \in requests}

\* C12: a submission at CONFIRM whose trimmed text is "yes" in any case issues
\* exactly one request, whatever StoryParameters hold, and no other step of the
\* program (another submission, an editor operation, the toggle, a response)
\* issues one.
C12_RequestOnlyOnConfirmYes ==
    [][IF /\ event'.op = "handleSend"
          /\ step = STEPS.CONFIRM
          /\ toLowerCase(trim(event'.arg)) = YesText
       THEN /\ issued' = issued + 1
            /\ requestIds' = requestIds \cup {issued'}
            /\ issued' \notin requestIds
       ELSE /\ issued' = issued
            /\ requestIds' \subseteq requestIds]_vars

\* C12 witness: a request was issued with an empty beat list
C12_Witness ==
    /\ sent /\ isYes(trim(event.arg))
    /\ step = STEPS.GENERATE
    /\ \E r \in requests : r.id = issued /\ r.payload.beats = <<>>

\* C13: while a request is outstanding (loading is true) no submission and no
\* editor operation changes step, the log or StoryParameters; only the
\* response does.
C13_LoadingBlocks ==
    [][(loading /\ event'.op # "generateStoryResume") =>
          UNCHANGED <<step, messages, data>>]_vars

\* the requests in flight that no reset has followed
ownRequests == {r \in requests : ~r.superseded}

\* C14: of the requests issued since the last reset at most one is
\* outstanding in every reachable state: no second request is issued before
\* the first one settles, unless a "start over" came in between.
C14_OneRequestPerSession == Cardinality(ownRequests) <= 1

\* C14 witness: two requests are outstanding, the earlier one from before a
\* reset, and "yes" was submitted again while they were
C14_Witness ==
    /\ Cardinality(requests) = 2
    /\ Cardinality(ownRequests) = 1
    /\ sent /\ isYes(trim(event.arg))
    /\ step = STEPS.GENERATE
    /\ sends = RaceSends

\* C15: the editor operations are available in every step, GENERATE and
\* EXTEND with a stored GenerationResult included: whenever the layout shows
\* both panels and the stored result is absent or a text, the parameters
\* editor is on the screen.
C15_EditorAlwaysAvailable ==
    (layoutMode = "both" /\ generatedStory.t = "string") =>
        (mounted /\ paramsPanelVisible)

\* the handlers of the parameters editor
EditorOps == {"handleAddBeat", "removeBeat", "handleAddCharacter",
              "removeCharacter", "toggleEdit", "saveEdit"}

\* C16: an editor operation (add or remove a beat or a character, begin or
\* commit an edit) leaves step, the log, the prompt, GenerationResult, the
\* GenerationControls, loading, the layout mode, the staged name and the
\* requests in flight as they were.
C16_EditorFrame ==
    [][event'.op \in EditorOps =>
          UNCHANGED <<step, messages, currentPrompt, generatedStory, temperature,
                      desiredLength, loading, layoutMode, currentCharName,
                      requests>>]_vars

\* C16 witness: an edit of a field was committed with a new value while the
\* request was in flight
C16_Witness ==
    /\ event.op = "saveEdit"
    /\ step = STEPS.GENERATE /\ loading
    /\ \E r \in requests : r.payload[event.arg] # data[event.arg]

\* the bot message of the `else` branch of step CONFIRM
cancelledMessage ==
    Msg("bot", <<"Story generation cancelled. To try again, type 'start over'.">>)

\* the last submission was a non-affirmative answer at CONFIRM
cancelled ==
    /\ step = STEPS.CONFIRM
    /\ messages[Len(messages)] = cancelledMessage

\* C17: after a non-affirmative answer at CONFIRM the cancellation message is
\* in the log and the conversation is terminal: no later input other than
\* "start over" changes step or issues a request.
C17_CancelIsTerminal ==
    [][/\ (/\ event'.op = "handleSend"
           /\ step = STEPS.CONFIRM
           /\ trim(event'.arg) # <<>>
           /\ ~isStartOver(trim(event'.arg))
           /\ ~isYes(trim(event'.arg)))
          => messages'[Len(messages')] = cancelledMessage
       /\ (/\ cancelled
           /\ event'.op = "handleSend"
           /\ ~isStartOver(trim(event'.arg)))
          => (step' = step /\ issued' = issued)]_vars

\* step is GENERATE and the request of this session has settled: it failed
failedAtGenerate == step = STEPS.GENERATE /\ ownRequests = {}

\* C18: at GENERATE after a failed request and at EXTEND a non-empty submission
\* other than "start over" leaves step, StoryParameters and GenerationResult
\* unchanged, and nothing but "start over" changes step.
C18_NoWayOutButReset ==
    [][(failedAtGenerate \/ step = STEPS.EXTEND) =>
          /\ (/\ event'.op = "handleSend"
              /\ trim(event'.arg) # <<>>
              /\ ~isStartOver(trim(event'.arg)))
             => UNCHANGED <<step, data, generatedStory>>
          /\ ~(event'.op = "handleSend" /\ isStartOver(trim(event'.arg)))
             => step' = step]_vars

\* the other mode of the pair the toggle switches between
otherMode(mode, pair) == CHOOSE m \in pair : m # mode

\* C19: the toggle button is there after every step of the program; with no
\* GenerationResult it switches between "both" and "chatOnly", with one between
\* "both" and "storyOnly"; two uses in a row lead back to the mode they
\* started from; a use changes nothing but the layout mode.
C19_Toggle ==
    [][LET pair == IF generatedStory = JsString(<<>>)
                   THEN {"both", "chatOnly"} ELSE {"both", "storyOnly"}
       IN /\ mounted'
          /\ event'.op = "cycleLayoutMode" =>
                /\ layoutMode \in pair
                /\ layoutMode' = otherMode(layoutMode, pair)
                /\ nextLayoutMode(layoutMode)' = layoutMode
                /\ UNCHANGED <<step, data, currentCharName, editing, temp,
                               messages, currentPrompt, generatedStory,
                               temperature, desiredLength, loading, requests>>]_vars

\* a is an initial part of b
isPrefix(a, b) == Len(a) <= Len(b) /\ SubSeq(b, 1, Len(a)) = a

\* C20: every step of the program that is not a "start over" submission leaves
\* the log as it was or appends to it: the log before the step is an initial
\* part of the log after it.
C20_LogAppendOnly ==
    [][~(event'.op = "handleSend" /\ isStartOver(trim(event'.arg))) =>
          isPrefix(messages, messages')]_vars

\* C20 witness: the error message of a failed request was appended to a log
\* that holds the whole conversation, after an editor operation
C20_Witness ==
    /\ settled
    /\ messages[Len(messages)] = errorMessage
    /\ Len(messages) >= 20
    /\ panelOps > 0

\* C21: whatever the outcome of the generation call, the stored
\* GenerationResult is absent or a text and the session still accepts input:
\* the component is mounted in every reachable state.
C21_NoFatalOutcome ==
    generatedStory.t \in {"string", "undefined"} /\ mounted

\* the positions of s that hold no white space, and s without the white space
\* before the first and after the last of them
inkAt(s) == {i \in 1..Len(s) : s[i] \notin WhiteSpace}

stripped(s) ==
    IF inkAt(s) = {} THEN <<>>
    ELSE SubSeq(s, CHOOSE i \in inkAt(s) : \A j \in inkAt(s) : i <= j,
                   CHOOSE i \in inkAt(s) : \A j \in inkAt(s) : i >= j)

\* a submission that is neither blank nor "start over"
accepted(raw) ==
    stripped(raw) # <<>> /\ toLowerCase(stripped(raw)) # StartOverText

\* C22: at step BEAT an accepted submission appends the trimmed input as the
\* last beat, changes nothing else in StoryParameters and moves to
\* BEAT_CONFIRM; at BEAT_CONFIRM "yes" in any case moves back to BEAT, any
\* other input moves to CHARACTER_NAME, and StoryParameters are unchanged.
C22_BeatSteps ==
    [][(event'.op = "handleSend" /\ accepted(event'.arg)) =>
          /\ step = STEPS.BEAT =>
                /\ data' = [data EXCEPT !.beats = Append(@, stripped(event'.arg))]
                /\ step' = STEPS.BEAT_CONFIRM
          /\ step = STEPS.BEAT_CONFIRM =>
                /\ data' = data
                /\ step' = IF toLowerCase(stripped(event'.arg)) = YesText
                           THEN STEPS.BEAT ELSE STEPS.CHARACTER_NAME]_vars

\* C22 witness: "yes", typed with a capital and blanks around it, took the
\* conversation back to BEAT after a beat was appended behind an editor's beat
C22_Witness ==
    /\ event = Ev("handleSend", <<" ","Y","e","s"," ">>)
    /\ step = STEPS.BEAT
    /\ Len(data.beats) = 2
    /\ beatLog[beatIds[1]] = <<"s","h","i","p">>
    /\ data.beats[2] = NoText

\* the text of the last user message of the log
lastUserText == userTexts[Len(userTexts)]

\* C23: an accepted submission at CHARACTER_NAME stages the input, leaves
\* StoryParameters alone and moves to CHARACTER_DESCRIPTION; at
\* CHARACTER_DESCRIPTION it appends one character whose name is the text of the
\* name submission before it (the last user message of the log) and whose
\* description is the input, and moves to CHARACTERS; at CHARACTERS "yes" in
\* any case moves to CHARACTER_NAME and any other input to SETTING.
C23_CharacterSteps ==
    [][(event'.op = "handleSend" /\ accepted(event'.arg)) =>
          /\ step = STEPS.CHARACTER_NAME =>
                /\ currentCharName' = stripped(event'.arg)
                /\ data' = data
                /\ step' = STEPS.CHARACTER_DESCRIPTION
          /\ step = STEPS.CHARACTER_DESCRIPTION =>
                /\ Len(data'.characters) = Len(data.characters) + 1
                /\ SubSeq(data'.characters, 1, Len(data.characters)) = data.characters
                /\ data'.characters[Len(data'.characters)].name = lastUserText
                /\ data'.characters[Len(data'.characters)].description =
                       stripped(event'.arg)
                /\ [data' EXCEPT !.characters = <<>>] = [data EXCEPT !.characters = <<>>]
                /\ step' = StepOf("CHARACTERS")
          /\ step = StepOf("CHARACTERS") =>
                step' = IF toLowerCase(stripped(event'.arg)) = YesText
                        THEN STEPS.CHARACTER_NAME ELSE STEPS.SETTING]_vars

\* C23 witness: a second character was stored through the conversation with a
\* name that differs from its description, after the editor removed the first
\* one and added a character with another name
C23_Witness ==
    /\ event.op = "handleSend"
    /\ step = StepOf("CHARACTERS")
    /\ panelOps = 2 /\ charRemovals = 1
    /\ Len(data.characters) = 2
    /\ data.characters[1].name = <<"A","n","a">>
    /\ data.characters[2].name = <<"Y","e","s">>
    /\ data.characters[2].description = NoText
    /\ charTags[1].k = 1 /\ charTags[2].k = 2
    /\ userTexts[Len(userTexts) - 1] = <<"Y","e","s">>
    /\ Len(userTexts) = 7

\* C24: an accepted submission at SETTING, GENRE or STYLE writes the trimmed
\* input into the field of that name and into nothing else of StoryParameters,
\* whatever the editor committed before, and moves to GENRE, STYLE or CONFIRM.
C24_FieldSteps ==
    [][(event'.op = "handleSend" /\ accepted(event'.arg)) =>
          /\ step = STEPS.SETTING =>
                /\ data' = [data EXCEPT !.setting = stripped(event'.arg)]
                /\ step' = STEPS.GENRE
          /\ step = STEPS.GENRE =>
                /\ data' = [data EXCEPT !.genre = stripped(event'.arg)]
                /\ step' = STEPS.STYLE
          /\ step = STEPS.STYLE =>
                /\ data' = [data EXCEPT !.style = stripped(event'.arg)]
                /\ step' = STEPS.CONFIRM]_vars

\* C24 witness: the style was submitted after the editor had replaced the
\* submitted setting; setting, genre and style hold three different texts
C24_Witness ==
    /\ event.op = "handleSend"
    /\ step = STEPS.CONFIRM
    /\ data.setting = <<" ","s","h","i","p">>
    /\ data.genre = <<"Y","e","s">>
    /\ data.style = NoText
    /\ Len(userTexts) = 8

\* C25: whenever a step stores one more character, by the conversation or by
\* the editor, the new last character has color palette[c mod 5], c being the
\* number of characters stored before the step.
C25_ColorByStoredCount ==
    [][Len(data'.characters) = Len(data.characters) + 1 =>
          data'.characters[Len(data'.characters)].color =
              characterColors[(Len(data.characters) % 5) + 1]]_vars

\* C25 witness: the conversation stored a character behind five characters of
\* the editor, so the palette started again from its first color
C25_Witness ==
    /\ event.op = "handleSend"
    /\ step = StepOf("CHARACTERS")
    /\ Len(data.characters) = 6
    /\ data.characters[6].color = characterColors[1]
    /\ \A i \in 1..5 : data.characters[i].color = characterColors[i]

\* C26, as stated: at every step an accepted submission appends the trimmed
\* text as a user message and one bot message behind it.
C26_AlwaysAnswered ==
    [][(event'.op = "handleSend" /\ accepted(event'.arg)) =>
          /\ Len(messages') = Len(messages) + 2
          /\ SubSeq(messages', 1, Len(messages)) = messages
          /\ messages'[Len(messages) + 1] = Msg("user", stripped(event'.arg))
          /\ messages'[Len(messages) + 2].sender = "bot"]_vars

\* the steps at which handleSend has a branch
AnsweredSteps ==
    {STEPS.BEAT, STEPS.BEAT_CONFIRM, STEPS.CHARACTER_NAME,
     STEPS.CHARACTER_DESCRIPTION, StepOf("CHARACTERS"), STEPS.SETTING,
     STEPS.GENRE, STEPS.STYLE, STEPS.CONFIRM}

\* the prompt hint for the input expected next, by the step before and after
\* the submission
hintFor(before, after) ==
    IF after = STEPS.BEAT_CONFIRM THEN <<"Do you want to add another beat? (yes/no)">>
    ELSE IF after = STEPS.BEAT THEN <<"Enter your next Story Beat:">>
    ELSE IF after = STEPS.CHARACTER_NAME THEN <<"Enter character name:">>
    ELSE IF after = STEPS.CHARACTER_DESCRIPTION THEN <<"Enter character description:">>
    ELSE IF after = StepOf("CHARACTERS") THEN <<"Add another character? (yes/no)">>
    ELSE IF after = STEPS.SETTING THEN <<"Enter the Setting:">>
    ELSE IF after = STEPS.GENRE THEN <<"Enter the Genre:">>
    ELSE IF after = STEPS.STYLE THEN <<"Enter the Style:">>
    ELSE IF after = STEPS.CONFIRM /\ before = STEPS.STYLE
         THEN <<"Generate your story? (yes/no)">>
    ELSE IF after = STEPS.CONFIRM THEN <<>>
    ELSE <<"Generating...">>

\* C26, amended: at the steps BEAT to CONFIRM an accepted submission appends
\* the trimmed text as a user message and one bot message behind it, and sets
\* the prompt hint for the next input; at GENERATE and EXTEND it appends the
\* user message only and leaves step and prompt hint as they are.
C26_AnsweredUpToConfirm ==
    [][(event'.op = "handleSend" /\ accepted(event'.arg)) =>
          /\ SubSeq(messages', 1, Len(messages)) = messages
          /\ messages'[Len(messages) + 1] = Msg("user", stripped(event'.arg))
          /\ step \in AnsweredSteps =>
                /\ Len(messages') = Len(messages) + 2
                /\ messages'[Len(messages) + 2].sender = "bot"
                /\ currentPrompt' = hintFor(step, step')
          /\ step \in {STEPS.GENERATE, STEPS.EXTEND} =>
                /\ Len(messages') = Len(messages) + 1
                /\ currentPrompt' = currentPrompt
                /\ step' = step]_vars

\* C26 witness: a submission at EXTEND left a user message at the end of the log
C26_Witness ==
    /\ event.op = "handleSend"
    /\ step = STEPS.EXTEND
    /\ messages[Len(messages)] = Msg("user", <<"Y","e","s">>)
    /\ messages[Len(messages) - 1] = storyGeneratedMessage

\* C27: removeBeat and removeCharacter with an index outside the list,
\* handleAddBeat with a text that is blank, and handleAddCharacter with a blank
\* name or a blank description leave StoryParameters as they are; the other
\* adds store the trimmed texts at the end of the list.
C27_InvalidEditorOps ==
    [][/\ (event'.op = "removeBeat" /\ event'.arg \notin 0..(Len(data.beats) - 1))
             => data' = data
       /\ (event'.op = "removeCharacter"
              /\ event'.arg \notin 0..(Len(data.characters) - 1))
             => data' = data
       /\ event'.op = "handleAddBeat" =>
             data' = IF stripped(event'.arg) = <<>> THEN data
                     ELSE [data EXCEPT !.beats = Append(@, stripped(event'.arg))]
       /\ event'.op = "handleAddCharacter" =>
             IF stripped(event'.arg[1]) = <<>> \/ stripped(event'.arg[2]) = <<>>
             THEN data' = data
             ELSE /\ [data' EXCEPT !.characters = <<>>] =
                         [data EXCEPT !.characters = <<>>]
                  /\ Len(data'.characters) = Len(data.characters) + 1
                  /\ SubSeq(data'.characters, 1, Len(data.characters)) =
                         data.characters
                  /\ data'.characters[Len(data'.characters)].name =
                         stripped(event'.arg[1])
                  /\ data'.characters[Len(data'.characters)].description =
                         stripped(event'.arg[2])]_vars

\* C27 witness: removeCharacter was called with the index behind the last
\* character, after the editor had stored a beat and a character from texts
\* with blanks around them
C27_Witness ==
    /\ event = Ev("removeCharacter", Len(data.characters))
    /\ Len(data.characters) = 1
    /\ data.characters[1].name = <<"A","n","a">>
    /\ data.beats = << <<"s","h","i","p">> >>

\* C28: toggleEdit stages the stored value of its field and changes nothing
\* in StoryParameters, whether it begins the edit or leaves it (the text typed
\* before is then gone); typing changes the staged value of its field only;
\* saveEdit writes the staged value into its field, into nothing else, and ends
\* the edit of that field; no handler of a field changes the staged value, the
\* stored value or the editing mode of another field, and only saveEdit and
\* the conversation change a stored text field.
C28_EditStaging ==
    [][/\ event'.op = "toggleEdit" =>
             /\ data' = data
             /\ temp' = [temp EXCEPT ![event'.arg] = data[event'.arg]]
             /\ editing' = [editing EXCEPT ![event'.arg] = ~editing[event'.arg]]
       /\ event'.op = "changeTemp" =>
             /\ data' = data
             /\ editing' = editing
             /\ temp' = [temp EXCEPT ![event'.arg[1]] = event'.arg[2]]
       /\ event'.op = "saveEdit" =>
             /\ data' = [data EXCEPT ![event'.arg] = temp[event'.arg]]
             /\ editing' = [editing EXCEPT ![event'.arg] = FALSE]
             /\ temp' = temp
       /\ event'.op \notin {"saveEdit", "handleSend"} =>
             \A f \in Fields : data'[f] = data[f]]_vars

\* C28 witness: the edit of setting was left without commit, after the
\* conversation had stored the setting, while genre was being edited with a
\* staged text that differs from the stored one
C28_Witness ==
    /\ event = Ev("toggleEdit", "setting")
    /\ panelOps = 5
    /\ editing = [setting |-> FALSE, genre |-> TRUE, style |-> FALSE]
    /\ temp.genre = <<" ","s","h","i","p">>
    /\ data.genre = <<>>
    /\ temp.setting = NoText /\ data.setting = NoText

\* StoryParameters and GenerationControls as the request carries them
frozenParameters ==
    [beats |-> data.beats,
     characters |-> data.characters,
     setting |-> data.setting,
     genre |-> data.genre,
     style |-> data.style,
     temperature |-> temperature,
     approx_word_count |-> desiredLength]

\* C29: a request that a step issues carries the StoryParameters and the
\* GenerationControls of the state in which "yes" was submitted, which the
\* submission itself leaves unchanged; a request that is in flight before and
\* after a step carries the same payload after it.
C29_PayloadFrozen ==
    [][/\ \A r \in requests' :
             r.id \notin requestIds =>
                /\ r.payload = frozenParameters
                /\ r.payload = frozenParameters'
       /\ \A r \in requests : \A r2 \in requests' :
             r.id = r2.id => r2.payload = r.payload]_vars

\* C29 witness: a request is in flight that carries a beat of the editor, the
\* temperature and the length the sliders were moved to, and the temperature
\* was changed again after the submission
C29_Witness ==
    \E r \in requests :
        /\ r.payload.beats = <<NoText, <<"s","h","i","p">>>>
        /\ r.payload.temperature = 35
        /\ r.payload.approx_word_count = 2500
        /\ temperature = DefaultTemperature
        /\ desiredLength = 2500
        /\ step = STEPS.GENERATE

\* C30: in every reachable state loading is true exactly when a generation
\* request has been issued and has not settled.
C30_LoadingIffInFlight ==
    loading <=> requests # {}

\* C31: when the service answers or fails every request, every state with
\* loading set is followed by a state with loading cleared; and when the
\* response of a request that no reset came after clears loading, step is
\* EXTEND, or step is GENERATE and the error message was appended.
C31_LoadingEnds ==
    /\ loading ~> ~loading
    /\ [][(/\ loading /\ ~loading'
           /\ event'.op = "generateStoryResume"
           /\ ~event'.arg.superseded) =>
             \/ step' = STEPS.EXTEND
             \/ /\ step' = STEPS.GENERATE
                /\ messages' = Append(messages, errorMessage)]_vars

\* C31 witness: loading was cleared by a network rejection of the request of a
\* second session, while the request of the first session is still in flight
C31_Witness ==
    /\ event.op = "generateStoryResume"
    /\ ~event.arg.superseded
    /\ event.arg.resp.rejected
    /\ issued = 2
    /\ \E r \in requests : r.superseded
    /\ ~loading
    /\ step = STEPS.GENERATE
    /\ messages[Len(messages)] = errorMessage

\* C32: the bot message of an accepted submission at STYLE is the summary of
\* the StoryParameters as they are after the submission, the submitted style
\* included.
C32_SummaryOfNewParameters ==
    [][(event'.op = "handleSend" /\ accepted(event'.arg) /\ step = STEPS.STYLE) =>
          /\ data'.style = stripped(event'.arg)
          /\ messages'[Len(messages')] = Msg("bot", summaryText(data'))]_vars

\* a GenerationResult exists: the stored story is a text that is not empty
resultExists == generatedStory.t = "string" /\ generatedStory.v # <<>>

\* C33: in every reachable state mode "chatOnly" occurs only without a
\* GenerationResult, mode "storyOnly" only with one, and the chat panel or the
\* right panel is on the screen.
C33_ModeMatchesResult ==
    /\ layoutMode = "chatOnly" => ~resultExists
    /\ layoutMode = "storyOnly" => resultExists
    /\ mounted /\ (chatVisible \/ rightVisible)

\* C34: in every reachable state a GenerationResult exists exactly when step
\* is EXTEND.
C34_ResultIffExtend ==
    resultExists <=> step = STEPS.EXTEND

\* C35: after a submission of "start over" StoryParameters are empty, the
\* GenerationControls have their initial values, no name is staged, and no
\* field is in edit mode, so that no text staged before can be committed.
C35_ResetComplete ==
    (event.op = "handleSend" /\ toLowerCase(stripped(event.arg)) = StartOverText) =>
        /\ data = EmptyData
        /\ temperature = DefaultTemperature
        /\ desiredLength = DefaultLength
        /\ currentCharName = <<>>
        /\ \A f \in Fields : ~editing[f]

====
